---- MODULE Spec2Model ----
(***************************************************************************)
(* Clip selection and scheduling of the AI video pipeline.                 *)
(*                                                                         *)
(* Spec      : AIPipeline.generate_clips_from_analysis                     *)
(*             (src/src/python/ai_pipeline.py), one loop iteration per     *)
(*             step.  Times are in thousandths of a second; the times of   *)
(*             the model are floats as Python holds them, and a float       *)
(*             that lies one unit in the last place above or below a       *)
(*             two-decimal value is shown one thousandth above or below it.*)
(* SpecDescription : the description stored for an emitted clip (line 321), *)
(*             strings as sequences of characters.                         *)
(* SpecTwice : generate_clips_from_analysis run twice on the same analysis *)
(*             and settings.                                               *)
(* SpecPipeline : AIPipeline.process_video and, as a second entry point,    *)
(*             ContentAnalyzer.analyze_content called on a transcript      *)
(*             (content_analyzer.py main).  What the collaborators do in   *)
(*             a run (jumpcutter, video preparation, Whisper, the          *)
(*             analysis service) is fixed in env when the run starts.      *)
(* SpecFair  : one call of generate_clips_from_analysis, which runs to its  *)
(*             return.                                                     *)
(* SpecGrouper : the SemanticGrouper of spec.md section 4.2, modelled from *)
(*             the design text like SpecSched.                             *)
(* SpecSched : the ClipScheduler state machine of spec.md section 4.6      *)
(*             (deduplicator, constraint enforcer, ranking); the source    *)
(*             tree holds no code for these stages, they are modelled      *)
(*             from the design text.                                       *)
(***************************************************************************)
EXTENDS Integers, Sequences, FiniteSets, TLC

\* generate_clips_from_analysis: max_clips is the method's parameter, which
\* the method reads in place of clip_settings['max_clips']
VARIABLES clip_settings, max_clips, analysis, selected_candidates, i, clips,
          outcome, pc

\* the clip scheduler of the design (spec.md section 4.6)
VARIABLES sched_state, mode, pool, accepted, enforced, ranked, final

\* a second run on the same input: the run number and the first run's result
VARIABLES run, first_clips, first_outcome

\* a clip description and the description stored for the emitted clip
VARIABLES description, clip_description

\* process_video and analyze_content: the entry point of the run, what the
\* collaborators will do (env), the positions in the two methods and their
\* intermediate and final results
VARIABLES entry, env, pv_pc, processed_video_path, transcript_result,
          an_pc, gpt_analysis, analysis_result, service_calls, results, progress

\* the semantic grouper of the design (spec.md section 4.2): the transcript
\* segments, their pairwise similarity, the scan position, the segments
\* claimed so far and the groups formed so far
VARIABLES transcript_segments, similarity, scan, claimed, groups

groupVars == <<transcript_segments, similarity, scan, claimed, groups>>

twinVars == <<run, first_clips, first_outcome>>

descVars == <<description, clip_description>>

pipeVars == <<entry, env, pv_pc, processed_video_path, transcript_result,
              an_pc, gpt_analysis, analysis_result, service_calls, results, progress>>

auxVars == <<twinVars, descVars, pipeVars, groupVars>>

codeVars == <<max_clips, analysis, selected_candidates, i, clips, outcome, pc>>

schedVars == <<sched_state, mode, pool, accepted, enforced, ranked, final>>

vars == <<clip_settings, codeVars, schedVars, auxVars>>

----------------------------------------------------------------------------
(* Bounds of the model *)

MaxCands == 2
MaxClips == 2

(* Program constants *)

absolute_minimum == 5
default_min_duration == 30
default_max_duration == 90
default_max_clips == 5

\* spec section 3: default overlap tolerance
overlap_tolerance_seconds == 5

\* n seconds in the time unit of the model
Seconds(n) == n * 1000

(* Inputs: proposals starting two seconds apart, shorter than the absolute
   minimum, of exactly that duration, below the preferred minimum and above
   the maximum; one proposal that starts far from the others; and two
   proposals with times that are not whole seconds, 3.04-8.04 and
   85.04-300.0. *)
TotalDurations == {Seconds(100)}

FarCandidate == [start_time |-> Seconds(40), end_time |-> Seconds(50)]

FractionalCandidates ==
    { [start_time |-> 3040, end_time |-> 8040],
      [start_time |-> 85040, end_time |-> Seconds(300)] }

Candidates ==
    { [start_time |-> Seconds(c[1]), end_time |-> Seconds(c[2])] :
        c \in {<<10, 13>>, <<10, 15>>, <<12, 22>>, <<12, 107>>} }
        \cup {FarCandidate} \cup FractionalCandidates

SeqsUpTo(S, n) == UNION { [1..k -> S] : k \in 0..n }

\* <<min_duration, max_duration>> in seconds: the defaults, a narrow window,
\* and a window below the absolute minimum (--min-duration 2
\* --max-duration 3)
DurationWindows == {<<default_min_duration, default_max_duration>>, <<8, 9>>, <<2, 3>>}

\* the settings record; the method never reads its max_clips, which keeps
\* its default, and extend_short_clips is tried with the default window
Settings ==
    { st \in { [min_duration |-> w[1],
                max_duration |-> w[2],
                max_clips |-> m,
                extend_short_clips |-> x] :
                 w \in DurationWindows, m \in {default_max_clips}, x \in BOOLEAN } :
        st.extend_short_clips => st.max_duration = default_max_duration }

\* the values of the parameter max_clips: what a caller passes (--max-clips
\* takes any integer) and the default of the signature
ArgMaxClips == ((-1)..MaxClips) \cup {default_max_clips}

Analyses ==
    { [clips |-> c, total_duration |-> t] :
        c \in SeqsUpTo(Candidates, MaxCands), t \in TotalDurations }

----------------------------------------------------------------------------
(* Helpers *)

Min(a, b) == IF a < b THEN a ELSE b

Max(a, b) == IF a > b THEN a ELSE b

Abs(x) == IF x < 0 THEN -x ELSE x

\* Python's seq[:n]: the first n elements, and for a negative n all but the
\* last -n
Prefix(s, n) ==
    IF n >= 0
    THEN SubSeq(s, 1, Min(n, Len(s)))
    ELSE SubSeq(s, 1, Max(0, Len(s) + n))

\* Python floats are IEEE 754 doubles.  A double of the model's range (0 and
\* 0.01 up to 1024 seconds) is a whole multiple of 2^-61, written here as
\* four limbs of 20 bits, least significant first.
Limb == 2^20

BigAdd(x, y) ==
    LET s1 == x[1] + y[1]
        s2 == x[2] + y[2] + (s1 \div Limb)
        s3 == x[3] + y[3] + (s2 \div Limb)
        s4 == x[4] + y[4] + (s3 \div Limb)
    IN <<s1 % Limb, s2 % Limb, s3 % Limb, s4 % Limb>>

\* x - y for x >= y
BigSub(x, y) ==
    LET d1 == x[1] - y[1]
        d2 == x[2] - y[2] - (IF d1 < 0 THEN 1 ELSE 0)
        d3 == x[3] - y[3] - (IF d2 < 0 THEN 1 ELSE 0)
        d4 == x[4] - y[4] - (IF d3 < 0 THEN 1 ELSE 0)
    IN <<IF d1 < 0 THEN d1 + Limb ELSE d1,
         IF d2 < 0 THEN d2 + Limb ELSE d2,
         IF d3 < 0 THEN d3 + Limb ELSE d3,
         d4>>

BigLess(x, y) ==
    \/ x[4] < y[4]
    \/ x[4] = y[4] /\ x[3] < y[3]
    \/ x[4] = y[4] /\ x[3] = y[3] /\ x[2] < y[2]
    \/ x[4] = y[4] /\ x[3] = y[3] /\ x[2] = y[2] /\ x[1] < y[1]

\* x * n for a small n
BigTimes(x, n) ==
    LET p1 == x[1] * n
        p2 == x[2] * n + (p1 \div Limb)
        p3 == x[3] * n + (p2 \div Limb)
        p4 == x[4] * n + (p3 \div Limb)
    IN <<p1 % Limb, p2 % Limb, p3 % Limb, p4>>

\* the number of binary digits of a limb and of a number
BitLen(n) ==
    IF n >= 2^10
    THEN CHOOSE k \in 11..20 : n < 2^k /\ n >= 2^(k - 1)
    ELSE CHOOSE k \in 0..10 : n < 2^k /\ (k = 0 \/ n >= 2^(k - 1))

BigBitLen(x) ==
    IF x[4] > 0 THEN 60 + BitLen(x[4])
    ELSE IF x[3] > 0 THEN 40 + BitLen(x[3])
    ELSE IF x[2] > 0 THEN 20 + BitLen(x[2])
    ELSE BitLen(x[1])

\* 2^s, the s lowest binary digits of x, and digit s of x
Pow2Big(s) == <<IF s \div 20 = 0 THEN 2^(s % 20) ELSE 0,
                IF s \div 20 = 1 THEN 2^(s % 20) ELSE 0,
                IF s \div 20 = 2 THEN 2^(s % 20) ELSE 0,
                IF s \div 20 = 3 THEN 2^(s % 20) ELSE 0>>

LowLimb(x, s, k) ==
    IF k - 1 < s \div 20 THEN x[k]
    ELSE IF k - 1 = s \div 20 THEN x[k] % (2^(s % 20))
    ELSE 0

LowBits(x, s) ==
    <<LowLimb(x, s, 1), LowLimb(x, s, 2), LowLimb(x, s, 3), LowLimb(x, s, 4)>>

BitAt(x, s) == (x[(s \div 20) + 1] \div (2^(s % 20))) % 2

\* round to nearest, ties to even, at 53 significant binary digits: the
\* rounding of every float operation
RoundToDouble(x) ==
    LET len == BigBitLen(x)
        s == len - 53
        r == LowBits(x, s)
        half == Pow2Big(s - 1)
        down == BigSub(x, r)
    IN IF len <= 53 THEN x
       ELSE IF BigLess(half, r) \/ (r = half /\ BitAt(x, s) = 1)
            THEN BigAdd(down, Pow2Big(s))
            ELSE down

\* the double a two-decimal number h / 100 is read as: h * 2^61 / 100 by long
\* division, a remainder kept as a lowest digit, then rounded
Literal(h) ==
    LET n4 == 2 * h
        q4 == n4 \div 100
        n3 == (n4 % 100) * Limb
        q3 == n3 \div 100
        n2 == (n3 % 100) * Limb
        q2 == n2 \div 100
        n1 == (n2 % 100) * Limb
        q1 == n1 \div 100
        sticky == IF n1 % 100 # 0 /\ q1 % 2 = 0 THEN 1 ELSE 0
    IN RoundToDouble(<<q1 + sticky, q2, q3, q4>>)

\* the doubles next to x
NextUp(x) == BigAdd(x, Pow2Big(BigBitLen(x) - 53))

NextDown(x) ==
    BigSub(x, Pow2Big(BigBitLen(BigSub(x, <<1, 0, 0, 0>>)) - 53))

\* A time t of the model stands for a double: t = 10 * h for the double of the
\* two-decimal number h / 100, one more for the double just above it and one
\* less for the double just below it (the times the code computes from
\* two-decimal times and whole seconds are no further away).
FloatOf(t) ==
    IF t % 1000 = 0
    THEN <<0, 0, 0, 2 * (t \div 1000)>>
    ELSE LET h == (t + 1) \div 10
             x == Literal(h)
         IN CASE t - 10 * h = 0 -> x
              [] t - 10 * h = 1 -> NextUp(x)
              [] t - 10 * h = -1 -> NextDown(x)

\* the model's number for a double x: the nearest two-decimal number, and
\* whether x is that number's double, above it or below it
Shown(x) ==
    LET h == BigAdd(BigTimes(x, 100), Pow2Big(60))[4] \div 2
        nearest == Literal(h)
    IN IF x = nearest THEN 10 * h
       ELSE IF BigLess(x, nearest) THEN 10 * h - 1
       ELSE 10 * h + 1

WholeSeconds(t) == t % 1000 = 0

\* float subtraction and addition as CPython computes them: exact on whole
\* seconds (integers are doubles and so are their sums and differences),
\* otherwise the exact result rounded to a double
\* (8.04 - 3.04 = 4.999999999999999, 300.0 - 85.04 = 214.95999999999998,
\* 85.04 + 90 = 175.04000000000002, 175.04000000000002 - 85.04
\* = 90.00000000000001)
FloatSub(a, b) ==
    IF WholeSeconds(a) /\ WholeSeconds(b)
    THEN a - b
    ELSE LET x == FloatOf(a)
             y == FloatOf(b)
         IN IF BigLess(x, y)
            THEN -Shown(RoundToDouble(BigSub(y, x)))
            ELSE Shown(RoundToDouble(BigSub(x, y)))

FloatAdd(a, b) ==
    IF WholeSeconds(a) /\ WholeSeconds(b)
    THEN a + b
    ELSE Shown(RoundToDouble(BigAdd(FloatOf(a), FloatOf(b))))

\* the candidate of the current loop iteration (enumerate index i, 0-based)
candidate == selected_candidates[i + 1]

\* line 270
duration == FloatSub(candidate.end_time, candidate.start_time)

\* line 277: too short to be useful
TooShortLeq(d) == d <= Seconds(absolute_minimum)

TooShort(d) == d < Seconds(absolute_minimum)

\* lines 288-289: a clip longer than max_duration keeps its start and is cut
TrimmedEndPastEnd(start_time, end_time, max_duration) ==
    IF FloatSub(end_time, start_time) > Seconds(max_duration)
    THEN end_time + Seconds(max_duration)
    ELSE end_time

TrimmedEndUntrimmed(start_time, end_time, max_duration) == end_time

TrimmedEndAlways(start_time, end_time, max_duration) ==
    FloatAdd(start_time, Seconds(max_duration))

TrimmedEnd(start_time, end_time, max_duration) ==
    IF FloatSub(end_time, start_time) > Seconds(max_duration)
    THEN FloatAdd(start_time, Seconds(max_duration))
    ELSE end_time

ClipInfoMixed(idx, cand, max_duration) ==
    [id |-> idx + 1,
     start_time |-> cand.start_time,
     end_time |-> TrimmedEnd(cand.start_time, cand.end_time, max_duration),
     duration |-> FloatSub(TrimmedEnd(cand.start_time, cand.end_time, max_duration),
                           cand.start_time),
     source_analysis |-> IF idx = 0 THEN "gpt_clips" ELSE "engagement_score"]

\* lines 314-325: the recorded duration is end_time - start_time of the
\* emitted interval
ClipInfo(idx, cand, max_duration) ==
    LET e == TrimmedEnd(cand.start_time, cand.end_time, max_duration)
    IN [id |-> idx + 1,
        start_time |-> cand.start_time,
        end_time |-> e,
        duration |-> FloatSub(e, cand.start_time),
        source_analysis |-> "gpt_clips"]

\* lines 269-289 on one interval: no interval when it is skipped as too
\* short, else the interval the clip is cut from
ApplyConstraints(c, max_duration) ==
    IF TooShort(FloatSub(c.end_time, c.start_time))
    THEN <<>>
    ELSE << [start_time |-> c.start_time,
             end_time |-> TrimmedEnd(c.start_time, c.end_time, max_duration)] >>

\* line 248: every call starts from a new empty list
StaleClips == clips

FreshClips == <<>>

\* line 327: clips.append(clip_info)
AddClipFront(cs, info) == <<info>> \o cs

AddClip(cs, info) == Append(cs, info)

----------------------------------------------------------------------------
(* Parts of the state a specification does not use stay at these values *)

None == "None"

TwinIdle ==
    /\ run = 1
    /\ first_clips = <<>>
    /\ first_outcome = <<>>

DescIdle ==
    /\ description = <<>>
    /\ clip_description = <<>>

CodeIdle ==
    /\ max_clips = default_max_clips
    /\ analysis = [clips |-> <<>>, total_duration |-> 100]
    /\ selected_candidates = <<>>
    /\ i = 0
    /\ clips = <<>>
    /\ outcome = <<>>
    /\ pc = "idle"

GroupIdle ==
    /\ transcript_segments = <<>>
    /\ similarity = <<>>
    /\ scan = 0
    /\ claimed = {}
    /\ groups = <<>>

PipeIdle ==
    /\ entry = "generate_clips_from_analysis"
    /\ env = None
    /\ pv_pc = "idle"
    /\ processed_video_path = None
    /\ transcript_result = None
    /\ an_pc = "idle"
    /\ gpt_analysis = None
    /\ analysis_result = None
    /\ service_calls = 0
    /\ results = None
    /\ progress = <<>>

----------------------------------------------------------------------------
(* The clip scheduler of the design: Collecting -> Deduplicating ->
   Enforcing -> Ranking -> Finalized (spec.md sections 4.4 - 4.6) *)

MaxPool == 3

Modes == {"heuristic", "external"}

\* scored candidates: three starts within and beyond the tolerance of each
\* other, a long and a short-but-usable duration, and one too short to use
ScoredCandidates ==
    { [start_time |-> s, end_time |-> s + ds[1], score |-> ds[2]] :
        s \in {10, 12, 16}, ds \in {<<40, 90>>, <<10, 40>>} }
    \cup { [start_time |-> 12, end_time |-> 15, score |-> 90] }

SchedSettings ==
    { [min_duration |-> default_min_duration,
       max_duration |-> default_max_duration,
       max_clips |-> m,
       extend_short_clips |-> x] : m \in 1..MaxClips, x \in BOOLEAN }

SchedIdle ==
    /\ sched_state = "Idle"
    /\ mode = "external"
    /\ pool = <<>>
    /\ accepted = <<>>
    /\ enforced = <<>>
    /\ ranked = <<>>
    /\ final = <<>>

Range(f) == { f[x] : x \in DOMAIN f }

\* section 4.4: is candidate k of cands within the tolerance of one of the
\* candidates whose positions are in seen
NearAny(cands, k, seen) ==
    \E j \in seen :
        Abs(cands[j].start_time - cands[k].start_time) < overlap_tolerance_seconds

RECURSIVE DedupAllSeenFrom(_, _, _)
DedupAllSeenFrom(cands, k, acc) ==
    IF k > Len(cands) THEN acc
    ELSE IF NearAny(cands, k, 1..(k - 1))
         THEN DedupAllSeenFrom(cands, k + 1, acc)
         ELSE DedupAllSeenFrom(cands, k + 1, Append(acc, k))

DeduplicateAllSeen(cands) == DedupAllSeenFrom(cands, 1, <<>>)

RECURSIVE DedupFrom(_, _, _)
DedupFrom(cands, k, acc) ==
    IF k > Len(cands) THEN acc
    ELSE IF NearAny(cands, k, Range(acc))
         THEN DedupFrom(cands, k + 1, acc)
         ELSE DedupFrom(cands, k + 1, Append(acc, k))

\* section 4.4: scan in input order, first seen wins; the result is the
\* sequence of accepted positions
Deduplicate(cands) == DedupFrom(cands, 1, <<>>)

\* section 4.5: the adjusted candidate as a one-element sequence, or the
\* empty sequence when it is dropped
Enforce(c, settings, total) ==
    LET d == c.end_time - c.start_time
        ext_start == Max(0, (c.start_time + c.end_time - settings.min_duration) \div 2)
        adj == IF d < settings.min_duration
               THEN IF settings.extend_short_clips
                    THEN [c EXCEPT !.start_time = ext_start,
                                   !.end_time = ext_start + settings.min_duration]
                    ELSE c
               ELSE IF d > settings.max_duration
                    THEN [c EXCEPT !.end_time = c.start_time + settings.max_duration]
                    ELSE c
    IN IF d < absolute_minimum
       THEN <<>>
       ELSE << [adj EXCEPT !.start_time = Max(0, adj.start_time),
                           !.end_time = Min(total, adj.end_time)] >>

RECURSIVE EnforceAll(_, _, _)
EnforceAll(cs, settings, total) ==
    IF cs = <<>> THEN <<>>
    ELSE Enforce(Head(cs), settings, total) \o EnforceAll(Tail(cs), settings, total)

\* section 4.6, Ranking: a goes before b
ByScoreOnly(a, b) == a.score > b.score

Before(a, b) ==
    \/ a.score > b.score
    \/ a.score = b.score /\ a.start_time < b.start_time

RECURSIVE InsertRanked(_, _)
InsertRanked(sorted, c) ==
    IF sorted = <<>> THEN <<c>>
    ELSE IF Before(c, Head(sorted))
         THEN <<c>> \o sorted
         ELSE <<Head(sorted)>> \o InsertRanked(Tail(sorted), c)

RECURSIVE SortRanked(_)
SortRanked(cs) ==
    IF cs = <<>> THEN <<>>
    ELSE InsertRanked(SortRanked(SubSeq(cs, 1, Len(cs) - 1)), cs[Len(cs)])

\* section 4.6, Ranking: heuristic mode sorts, external mode keeps the order
Rank(cs, m) == IF m = "heuristic" THEN SortRanked(cs) ELSE cs

\* section 4.6, Finalized: first max_clips entries, ids 1..n in final order
Finalize(cs, n) ==
    LET top == Prefix(cs, n)
    IN [k \in 1..Len(top) |->
          [id |-> k,
           start_time |-> top[k].start_time,
           end_time |-> top[k].end_time,
           score |-> top[k].score]]

InitSched ==
    /\ clip_settings \in SchedSettings
    /\ max_clips = default_max_clips
    /\ analysis = [clips |-> <<>>, total_duration |-> 100]
    /\ selected_candidates = <<>>
    /\ i = 0
    /\ clips = <<>>
    /\ outcome = <<>>
    /\ pc = "idle"
    /\ sched_state = "Collecting"
    /\ mode \in Modes
    /\ pool = <<>>
    /\ accepted = <<>>
    /\ enforced = <<>>
    /\ ranked = <<>>
    /\ final = <<>>
    /\ TwinIdle /\ DescIdle /\ PipeIdle /\ GroupIdle

\* Collecting: the candidates of the one configured mode are gathered
Collect ==
    /\ sched_state = "Collecting"
    /\ pool' \in SeqsUpTo(ScoredCandidates, MaxPool)
    /\ sched_state' = "Deduplicating"
    /\ UNCHANGED <<clip_settings, codeVars, auxVars, mode, accepted, enforced, ranked, final>>

Dedup ==
    /\ sched_state = "Deduplicating"
    /\ accepted' = Deduplicate(pool)
    /\ sched_state' = "Enforcing"
    /\ UNCHANGED <<clip_settings, codeVars, auxVars, mode, pool, enforced, ranked, final>>

EnforceConstraints ==
    /\ sched_state = "Enforcing"
    /\ enforced' = EnforceAll([k \in 1..Len(accepted) |-> pool[accepted[k]]],
                              clip_settings, analysis.total_duration)
    /\ sched_state' = "Ranking"
    /\ UNCHANGED <<clip_settings, codeVars, auxVars, mode, pool, accepted, ranked, final>>

\* Ranking, then the entry into Finalized: truncation and ids
RankCandidates ==
    /\ sched_state = "Ranking"
    /\ ranked' = Rank(enforced, mode)
    /\ final' = Finalize(ranked', clip_settings.max_clips)
    /\ sched_state' = "Finalized"
    /\ UNCHANGED <<clip_settings, codeVars, auxVars, mode, pool, accepted, enforced>>

NextSched ==
    \/ Collect
    \/ Dedup
    \/ EnforceConstraints
    \/ RankCandidates

SpecSched == InitSched /\ [][NextSched]_vars

----------------------------------------------------------------------------
(* The description of an emitted clip (ai_pipeline.py line 321) *)

description_limit == 200

\* descriptions of description_limit - DescSpread .. description_limit +
\* DescSpread characters are tried
DescSpread == 30

Ellipsis == <<".", ".", ".">>

Descriptions ==
    { [k \in 1..n |-> IF (k + v) % 2 = 0 THEN "a" ELSE "b"] :
        n \in (description_limit - DescSpread)..(description_limit + DescSpread),
        v \in 0..1 }

\* description[:200] + '...' if len(description) > 200 else description
TruncatedFromLimit(d) ==
    IF Len(d) >= description_limit
    THEN SubSeq(d, 1, description_limit) \o Ellipsis
    ELSE d

Truncated(d) ==
    IF Len(d) > description_limit
    THEN SubSeq(d, 1, description_limit) \o Ellipsis
    ELSE d

InitDescription ==
    /\ clip_settings = [min_duration |-> default_min_duration,
                        max_duration |-> default_max_duration,
                        max_clips |-> 5,
                        extend_short_clips |-> FALSE]
    /\ CodeIdle
    /\ SchedIdle
    /\ TwinIdle
    /\ PipeIdle
    /\ GroupIdle
    /\ description \in Descriptions
    /\ clip_description = <<>>

\* line 321: the description put into clip_info
StoreDescription ==
    /\ clip_description = <<>>
    /\ clip_description' = <<Truncated(description)>>
    /\ UNCHANGED <<clip_settings, codeVars, schedVars, twinVars, pipeVars, groupVars,
                   description>>

NextDescription == StoreDescription

SpecDescription == InitDescription /\ [][NextDescription]_vars

\* C12: the stored description is the candidate's description when that has
\* at most 200 characters (exactly 200 included), and otherwise its first
\* 200 characters followed by an ellipsis.
C12_Description ==
    clip_description # <<>> =>
        LET stored == clip_description[1]
        IN /\ Len(description) <= description_limit => stored = description
           /\ Len(description) > description_limit =>
                /\ Len(stored) = description_limit + 3
                /\ \A k \in 1..description_limit : stored[k] = description[k]
                /\ \A k \in 1..3 : stored[description_limit + k] = "."

\* a description one character over the limit was cut
C12_Witness ==
    /\ clip_description # <<>>
    /\ Len(description) = description_limit + 1
    /\ Len(clip_description[1]) = description_limit + 3

\* a description of exactly the limit was stored as it is
C12_WitnessExact ==
    /\ clip_description # <<>>
    /\ Len(description) = description_limit
    /\ clip_description[1] = description

----------------------------------------------------------------------------
(* generate_clips_from_analysis *)

Init ==
    /\ clip_settings \in Settings
    /\ max_clips \in ArgMaxClips
    /\ analysis \in Analyses
    /\ selected_candidates = <<>>
    /\ i = 0
    /\ clips = <<>>
    /\ outcome = <<>>
    /\ pc = "start"
    /\ SchedIdle
    /\ TwinIdle /\ DescIdle /\ PipeIdle /\ GroupIdle

\* lines 248-258: no clips in the analysis returns the empty list at once;
\* otherwise the first max_clips proposals are selected
SelectCandidates ==
    /\ pc = "start"
    /\ clips' = FreshClips
    /\ IF analysis.clips = <<>>
       THEN /\ selected_candidates' = <<>>
            /\ pc' = "done"
       ELSE /\ selected_candidates' = Prefix(analysis.clips, max_clips)
            /\ pc' = "loop"
    /\ i' = 0
    /\ outcome' = <<>>
    /\ UNCHANGED <<clip_settings, max_clips, analysis, schedVars, auxVars>>

\* lines 270-280: a clip shorter than the absolute minimum is skipped
SkipTooShort ==
    /\ pc = "loop"
    /\ i < Len(selected_candidates)
    /\ TooShort(duration)
    /\ i' = i + 1
    /\ outcome' = Append(outcome, "too_short")
    /\ UNCHANGED <<clip_settings, max_clips, analysis, selected_candidates, clips, pc, schedVars, auxVars>>

\* lines 270-271, 288-289: start_time and end_time are locals read from the
\* candidate; the trim rebinds the local end_time and the candidate dict is
\* never written
CandidatesTrimmedInPlace(cands, idx, max_duration) ==
    [cands EXCEPT ![idx + 1].end_time =
        TrimmedEnd(cands[idx + 1].start_time, cands[idx + 1].end_time, max_duration)]

CandidatesAfterTrim(cands, idx, max_duration) == cands

\* lines 284-327: the clip is kept (trimmed when too long), rendered,
\* thumbnailed and appended
CreateClip ==
    /\ pc = "loop"
    /\ i < Len(selected_candidates)
    /\ ~TooShort(duration)
    /\ clips' = AddClip(clips, ClipInfo(i, candidate, clip_settings.max_duration))
    /\ selected_candidates' =
           CandidatesAfterTrim(selected_candidates, i, clip_settings.max_duration)
    /\ i' = i + 1
    /\ outcome' = Append(outcome, "created")
    /\ UNCHANGED <<clip_settings, max_clips, analysis, pc, schedVars, auxVars>>

\* lines 297-312, 329-331: create_clip or generate_thumbnail raises; the
\* exception is caught and the loop goes on with the next candidate
RenderFailsAborts ==
    /\ pc = "loop"
    /\ i < Len(selected_candidates)
    /\ ~TooShort(duration)
    /\ outcome' = Append(outcome, "failed")
    /\ i' = i + 1
    /\ pc' = "done"
    /\ UNCHANGED <<clip_settings, max_clips, analysis, selected_candidates, clips, schedVars, auxVars>>

RenderFails ==
    /\ pc = "loop"
    /\ i < Len(selected_candidates)
    /\ ~TooShort(duration)
    /\ \E failed \in {"create_clip", "generate_thumbnail"} :
          outcome' = Append(outcome, "failed")
    /\ i' = i + 1
    /\ UNCHANGED <<clip_settings, max_clips, analysis, selected_candidates, clips, pc, schedVars, auxVars>>

\* line 333
ReturnClips ==
    /\ pc = "loop"
    /\ i = Len(selected_candidates)
    /\ pc' = "done"
    /\ UNCHANGED <<clip_settings, max_clips, analysis, selected_candidates, i, clips, outcome, schedVars, auxVars>>

Next ==
    \/ SelectCandidates
    \/ SkipTooShort
    \/ CreateClip
    \/ RenderFails
    \/ ReturnClips

Spec == Init /\ [][Next]_vars

----------------------------------------------------------------------------
(* Two runs of generate_clips_from_analysis on the same input *)

\* longest proposal list of the two-run specification
MaxTwinCands == 2

TwinSettings ==
    { [min_duration |-> default_min_duration,
       max_duration |-> default_max_duration,
       max_clips |-> default_max_clips,
       extend_short_clips |-> FALSE] }

InitTwice ==
    /\ clip_settings \in TwinSettings
    /\ max_clips \in 1..MaxClips
    /\ analysis \in { [clips |-> c, total_duration |-> t] :
                        c \in SeqsUpTo(Candidates, MaxTwinCands),
                        t \in TotalDurations }
    /\ selected_candidates = <<>>
    /\ i = 0
    /\ clips = <<>>
    /\ outcome = <<>>
    /\ pc = "start"
    /\ SchedIdle
    /\ TwinIdle /\ DescIdle /\ PipeIdle /\ GroupIdle

\* the caller keeps the first result and calls the method again with the
\* same analysis and settings
Rerun ==
    /\ pc = "done"
    /\ run = 1
    /\ run' = 2
    /\ first_clips' = clips
    /\ first_outcome' = outcome
    /\ pc' = "start"
    /\ UNCHANGED <<clip_settings, max_clips, analysis, selected_candidates, i, clips, outcome,
                   schedVars, descVars, pipeVars, groupVars>>

NextTwice ==
    \/ SelectCandidates
    \/ SkipTooShort
    \/ CreateClip
    \/ RenderFails
    \/ ReturnClips
    \/ Rerun

SpecTwice == InitTwice /\ [][NextTwice]_vars

\* one call of the method, which runs to its return once it is called: the
\* body is straight-line code around one for loop over a finite list, and
\* every exception of an iteration is caught (lines 329-331)
\* (the proposals are in whole seconds: the order of the steps does not
\* depend on the times)
InitFair ==
    /\ InitTwice
    /\ \A k \in 1..Len(analysis.clips) :
          /\ WholeSeconds(analysis.clips[k].start_time)
          /\ WholeSeconds(analysis.clips[k].end_time)

SpecFair == InitFair /\ [][Next]_vars /\ WF_vars(Next)

SecondRunDone == run = 2 /\ pc = "done"

SameSequence(a, b) ==
    /\ Len(a) = Len(b)
    /\ \A k \in 1..Len(a) :
          /\ a[k].id = b[k].id
          /\ a[k].start_time = b[k].start_time
          /\ a[k].end_time = b[k].end_time

FailedAt(o) == { j \in 1..Len(o) : o[j] = "failed" }

\* C14 as claimed: two runs on the same proposals and settings give the same
\* sequence (length, and id, start and end at each position).
C14_SameResultClaimed ==
    SecondRunDone => SameSequence(clips, first_clips)

\* C14: two runs on the same proposals and settings in which rendering fails
\* for the same proposals give the same sequence.
C14_SameResultSameRenders ==
    (SecondRunDone /\ FailedAt(outcome) = FailedAt(first_outcome))
        => SameSequence(clips, first_clips)

C14_Witness ==
    /\ SecondRunDone
    /\ FailedAt(outcome) = FailedAt(first_outcome)
    /\ FailedAt(outcome) # {}
    /\ Len(clips) >= 1
    /\ SameSequence(clips, first_clips)

----------------------------------------------------------------------------
(* process_video (ai_pipeline.py 119-241), WhisperTranscriber.transcribe
   (whisper_transcriber.py 30-103) and ContentAnalyzer.analyze_content
   (content_analyzer.py 67-201) *)

\* longest transcript
MaxSegments == 2

\* analyze_content is declared with one parameter besides self and is called
\* from process_video with two arguments
analyze_content_params == 1
analyze_content_args == 2

Segments == { [start |-> 0, end |-> 50], [start |-> 50, end |-> 100] }

ServiceClipLists ==
    { <<>>,
      << [start_time |-> 10, end_time |-> 50] >>,
      << [start_time |-> 12, end_time |-> 22], [start_time |-> 10, end_time |-> 50] >> }

\* what the service call does: it raises, or returns a response that carries
\* the parsed result in one of three places, unparseable content, or nothing
ServiceFailures == {"raises", "attribute_error"}
ServiceResponses ==
    {"parsed", "message_parsed", "content_json", "content_bad_json", "no_result"}
UsableResponses == {"parsed", "message_parsed", "content_json"}

\* ai_pipeline.py 136, output_dir.mkdir(exist_ok=True): the directory is there
\* or is made, or its parent is missing (FileNotFoundError), or the path is
\* a file (FileExistsError)
OutputDirs == {"ok", "parent_missing", "is_file"}

Envs ==
    [output_dir : OutputDirs,
     jumpcutter : {"ok", "nonzero_exit", "no_output", "raises"},
     video_prep : {"ok", "error"},
     whisper : {"ok", "raises"},
     segments : SeqsUpTo(Segments, MaxSegments),
     api_key : BOOLEAN,
     service : ServiceFailures \cup ServiceResponses,
     service_clips : ServiceClipLists]

DefaultSettings ==
    [min_duration |-> default_min_duration,
     max_duration |-> default_max_duration,
     max_clips |-> 5,
     extend_short_clips |-> FALSE]

\* a Python call with positional arguments only and no defaults is accepted
\* when the counts agree, and raises TypeError otherwise
CallAccepted(nargs, nparams) == nargs = nparams

\* whisper_transcriber.py 39-92: a failure of the engine is caught and
\* returned under the key 'error'
TranscribeSwallows(whisper, segs) == [error |-> None, segments |-> <<>>]

Transcribe(whisper, segs) ==
    IF whisper = "raises"
    THEN [error |-> "whisper failed", segments |-> <<>>]
    ELSE [error |-> None, segments |-> segs]

\* ai_pipeline.py 227-241: the result built by the except clause
ErrorResult(message) ==
    [success |-> FALSE, error |-> message, timestamp |-> "time.time()",
     keys |-> {"success", "error", "video_path", "timestamp"}]

\* ai_pipeline.py 240: the except clause reports the failure as progress 0
ReportFailure(p) == Append(p, 0)

\* content_analyzer.py 83: if not segments
HasSegmentsAlways(segs) == TRUE

HasSegments(segs) == segs # <<>>

\* content_analyzer.py 179-182: a failed call returns an error, no retry
OnServiceErrorRetry == "call_again"

OnServiceError == "return_error"

\* content_analyzer.py 72, 84, 160, 164, 179-182: an error result is a dict
\* with the one key "error"
GptErrorWithClips(message) ==
    [keys |-> {"error", "clips"}, error |-> message, clips |-> env.service_clips]

GptError(message) == [keys |-> {"error"}, error |-> message, clips |-> <<>>]

\* content_analyzer.py 168-177
GptClips(cs) ==
    [keys |-> {"clips"},
     error |-> None,
     clips |-> [k \in 1..Len(cs) |->
                  [start_time |-> cs[k].start_time, end_time |-> cs[k].end_time]]]

\* dict.get(key, default)
Get(d, key, default) == IF key \in d.keys THEN d[key] ELSE default

InitPipeline ==
    /\ clip_settings = DefaultSettings
    /\ CodeIdle
    /\ SchedIdle
    /\ TwinIdle
    /\ DescIdle
    /\ GroupIdle
    /\ env \in Envs
    /\ entry \in {"process_video", "analyze_content"}
    /\ entry = "analyze_content" => env.output_dir = "ok"
    /\ pv_pc = IF entry = "process_video" THEN "make_output_dir" ELSE "idle"
    /\ an_pc = IF entry = "analyze_content" THEN "analyze_content" ELSE "idle"
    /\ processed_video_path = None
    /\ transcript_result =
          IF entry = "analyze_content"
          THEN [error |-> None, segments |-> env.segments]
          ELSE [error |-> None, segments |-> <<>>]
    /\ gpt_analysis = None
    /\ analysis_result = None
    /\ service_calls = 0
    /\ results = None
    /\ progress = <<>>

fixedVars ==
    <<clip_settings, codeVars, schedVars, twinVars, descVars, groupVars, entry, env>>

\* ai_pipeline.py 132-136: the output directory is made before the try of
\* line 140, so a failure is not caught: the call ends with the exception,
\* returns no result and has reported no progress
MakeOutputDir ==
    /\ pv_pc = "make_output_dir"
    /\ pv_pc' = IF env.output_dir = "ok" THEN "cut_quiet_parts" ELSE "raised"
    /\ UNCHANGED <<fixedVars, processed_video_path, transcript_result, an_pc,
                   gpt_analysis, analysis_result, service_calls, results,
                   progress>>

\* ai_pipeline.py 145, 73-117: any failure of jumpcutter falls back to the
\* original video
CutQuietParts ==
    /\ pv_pc = "cut_quiet_parts"
    /\ progress' = Append(progress, 15)
    /\ processed_video_path' =
          IF env.jumpcutter = "ok" THEN "no_quiet" ELSE "original"
    /\ pv_pc' = "prepare"
    /\ UNCHANGED <<fixedVars, transcript_result, an_pc, gpt_analysis,
                   analysis_result, service_calls, results>>

\* ai_pipeline.py 148-155
PrepareVideo ==
    /\ pv_pc = "prepare"
    /\ IF env.video_prep = "ok"
       THEN /\ progress' = Append(progress, 25)
            /\ pv_pc' = "transcribe"
            /\ UNCHANGED results
       ELSE /\ progress' = ReportFailure(Append(progress, 25))
            /\ results' = ErrorResult("Video preparation failed")
            /\ pv_pc' = "returned"
    /\ UNCHANGED <<fixedVars, processed_video_path, transcript_result, an_pc,
                   gpt_analysis, analysis_result, service_calls>>

\* ai_pipeline.py 158-169
TranscribeAudio ==
    /\ pv_pc = "transcribe"
    /\ transcript_result' = Transcribe(env.whisper, env.segments)
    /\ IF transcript_result'.error # None
       THEN /\ progress' = ReportFailure(Append(progress, 40))
            /\ results' = ErrorResult("Transcription failed")
            /\ pv_pc' = "returned"
       ELSE /\ progress' = Append(progress, 40)
            /\ pv_pc' = "analyze"
            /\ UNCHANGED results
    /\ UNCHANGED <<fixedVars, processed_video_path, an_pc, gpt_analysis,
                   analysis_result, service_calls>>

\* ai_pipeline.py 172-176: the call of analyze_content passes the transcript
\* and the clip settings; the method takes the transcript only, so the call
\* raises TypeError, which the except clause of 227-241 turns into the
\* failure result.  Lines 178-225 are not reached.
AnalyzeContentCall ==
    /\ pv_pc = "analyze"
    /\ IF CallAccepted(analyze_content_args, analyze_content_params)
       THEN /\ progress' = Append(progress, 55)
            /\ an_pc' = "analyze_content"
            /\ pv_pc' = "analyzing"
            /\ UNCHANGED results
       ELSE /\ progress' = ReportFailure(Append(progress, 55))
            /\ results' = ErrorResult("TypeError")
            /\ pv_pc' = "returned"
            /\ UNCHANGED an_pc
    /\ UNCHANGED <<fixedVars, processed_video_path, transcript_result,
                   gpt_analysis, analysis_result, service_calls>>

\* content_analyzer.py 189-193
StartAnalysis ==
    /\ an_pc = "analyze_content"
    /\ an_pc' = "analyze_transcript_with_gpt"
    /\ UNCHANGED <<fixedVars, pv_pc, processed_video_path, transcript_result,
                   gpt_analysis, analysis_result, service_calls, results, progress>>

\* content_analyzer.py 71-72
NoApiKey ==
    /\ an_pc = "analyze_transcript_with_gpt"
    /\ ~env.api_key
    /\ gpt_analysis' = GptError("OpenAI API key not provided")
    /\ an_pc' = "gpt_returned"
    /\ UNCHANGED <<fixedVars, pv_pc, processed_video_path, transcript_result,
                   analysis_result, service_calls, results, progress>>

\* content_analyzer.py 82-84
NoSegments ==
    /\ an_pc = "analyze_transcript_with_gpt"
    /\ env.api_key
    /\ ~HasSegments(transcript_result.segments)
    /\ gpt_analysis' = GptError("No transcript segments found")
    /\ an_pc' = "gpt_returned"
    /\ UNCHANGED <<fixedVars, pv_pc, processed_video_path, transcript_result,
                   analysis_result, service_calls, results, progress>>

\* content_analyzer.py 86-110: the request is built
BuildRequest ==
    /\ an_pc = "analyze_transcript_with_gpt"
    /\ env.api_key
    /\ HasSegments(transcript_result.segments)
    /\ an_pc' = "call_service"
    /\ UNCHANGED <<fixedVars, pv_pc, processed_video_path, transcript_result,
                   gpt_analysis, analysis_result, service_calls, results, progress>>

\* content_analyzer.py 112-121, 179-182: the one call of the service
CallService ==
    /\ an_pc = "call_service"
    /\ service_calls' = service_calls + 1
    /\ IF env.service \in ServiceFailures
       THEN IF OnServiceError = "return_error"
            THEN /\ gpt_analysis' =
                      GptError(IF env.service = "attribute_error"
                               THEN "GPT analysis failed - attribute error"
                               ELSE "GPT analysis failed")
                 /\ an_pc' = "gpt_returned"
            ELSE UNCHANGED <<gpt_analysis, an_pc>>
       ELSE /\ an_pc' = "extract"
            /\ UNCHANGED gpt_analysis
    /\ UNCHANGED <<fixedVars, pv_pc, processed_video_path, transcript_result,
                   analysis_result, results, progress>>

\* content_analyzer.py 123-177: the parsed result is looked for in
\* response.parsed, in choices[0].message.parsed, then in the JSON content
ExtractResult ==
    /\ an_pc = "extract"
    /\ gpt_analysis' =
          IF env.service \in UsableResponses
          THEN GptClips(env.service_clips)
          ELSE IF env.service = "content_bad_json"
               THEN GptError("Failed to parse JSON response")
               ELSE GptError("Could not extract parsed result from OpenAI response")
    /\ an_pc' = "gpt_returned"
    /\ UNCHANGED <<fixedVars, pv_pc, processed_video_path, transcript_result,
                   analysis_result, service_calls, results, progress>>

\* content_analyzer.py 190, 195-201
ReturnAnalysis ==
    /\ an_pc = "gpt_returned"
    /\ analysis_result' =
          [total_duration |->
               IF transcript_result.segments # <<>>
               THEN transcript_result.segments[Len(transcript_result.segments)].end
               ELSE 0,
           clips |-> Get(gpt_analysis, "clips", <<>>),
           error |-> Get(gpt_analysis, "error", None)]
    /\ an_pc' = "returned"
    /\ UNCHANGED <<fixedVars, pv_pc, processed_video_path, transcript_result,
                   gpt_analysis, service_calls, results, progress>>

NextPipeline ==
    \/ MakeOutputDir
    \/ CutQuietParts
    \/ PrepareVideo
    \/ TranscribeAudio
    \/ AnalyzeContentCall
    \/ StartAnalysis
    \/ NoApiKey
    \/ NoSegments
    \/ BuildRequest
    \/ CallService
    \/ ExtractResult
    \/ ReturnAnalysis

SpecPipeline == InitPipeline /\ [][NextPipeline]_vars

----------------------------------------------------------------------------
(* The semantic grouper of the design (spec.md section 4.2) *)

\* longest transcript of the grouper
MaxGroupSegs == 4

\* section 4.2: default similarity threshold 0.7, in tenths
similarity_threshold == 7

\* similarities at the threshold and above it, in tenths
SimValues == {7, 8}

\* a transcript of n consecutive ten-second segments
Transcript(n) == [k \in 1..n |-> [start |-> 10 * (k - 1), end |-> 10 * k]]

Pairs(n) == { p \in (1..n) \X (1..n) : p[1] < p[2] }

\* cosine similarity is symmetric
Sim(a, b) == IF a < b THEN similarity[<<a, b>>] ELSE similarity[<<b, a>>]

\* the segments merged with the seed: the others that exceed the threshold
\* and have not yet been claimed
MergedWithIgnoringClaims(seed, taken) ==
    { j \in 1..Len(transcript_segments) : j # seed /\ Sim(seed, j) > similarity_threshold }

MergedWith(seed, taken) ==
    { j \in 1..Len(transcript_segments) :
        j # seed /\ j \notin taken /\ Sim(seed, j) > similarity_threshold }

SetMin(S) == CHOOSE x \in S : \A y \in S : x <= y

SetMax(S) == CHOOSE x \in S : \A y \in S : x >= y

\* the group of a seed: the interval from the least start to the greatest
\* end of its members
MakeGroup(seed, members) ==
    [seed |-> seed,
     members |-> members,
     start |-> SetMin({ transcript_segments[j].start : j \in members }),
     end |-> SetMax({ transcript_segments[j].end : j \in members }),
     segment_count |-> Cardinality(members)]

InitGrouper ==
    /\ clip_settings = DefaultSettings
    /\ CodeIdle
    /\ SchedIdle
    /\ TwinIdle /\ DescIdle /\ PipeIdle
    /\ \E n \in 1..MaxGroupSegs :
          /\ transcript_segments = Transcript(n)
          /\ similarity \in [Pairs(n) -> SimValues]
    /\ scan = 1
    /\ claimed = {}
    /\ groups = <<>>

\* a segment already claimed by an earlier group is passed over
SkipClaimed ==
    /\ scan \in 1..Len(transcript_segments)
    /\ scan \in claimed
    /\ scan' = scan + 1
    /\ UNCHANGED <<clip_settings, codeVars, schedVars, twinVars, descVars, pipeVars,
                   transcript_segments, similarity, claimed, groups>>

\* an unclaimed segment seeds a group and claims its members
FormGroup ==
    /\ scan \in 1..Len(transcript_segments)
    /\ scan \notin claimed
    /\ LET members == {scan} \cup MergedWith(scan, claimed)
       IN /\ groups' = Append(groups, MakeGroup(scan, members))
          /\ claimed' = claimed \cup members
    /\ scan' = scan + 1
    /\ UNCHANGED <<clip_settings, codeVars, schedVars, twinVars, descVars, pipeVars,
                   transcript_segments, similarity>>

NextGrouper ==
    \/ SkipClaimed
    \/ FormGroup

SpecGrouper == InitGrouper /\ [][NextGrouper]_vars

----------------------------------------------------------------------------
(* Properties of generate_clips_from_analysis *)

\* the settings in the time unit of the model
AbsMin == Seconds(absolute_minimum)

MinDur == Seconds(clip_settings.min_duration)

MaxDur == Seconds(clip_settings.max_duration)

Tolerance == Seconds(overlap_tolerance_seconds)

\* the duration of an interval, end - start as the program computes it
Dur(c) == FloatSub(c.end_time, c.start_time)

\* the proposal the k-th emitted clip was made from: clip ids are the
\* 1-based loop positions (line 315)
Source(k) == selected_candidates[clips[k].id]

Emitted == 1..Len(clips)

\* C1: every emitted clip satisfies 0 <= start < end <= total_source_duration.
\* The code never clamps to the source duration, so a proposal that runs past
\* the end of the video is emitted as it is.
C1_BoundsClaimed ==
    \A k \in Emitted :
        /\ 0 <= clips[k].start_time
        /\ clips[k].start_time < clips[k].end_time
        /\ clips[k].end_time <= analysis.total_duration

\* C2: for every configuration the emitted sequence has at most max_clips
\* clips.  For a negative max_clips the slice of line 258 drops that many
\* proposals from the end and keeps the others.
C2_CountBoundClaimed == Len(clips) <= max_clips

\* C3: any two distinct emitted clips start at least
\* overlap_tolerance_seconds apart.  The code has no deduplication step.
C3_StartSeparationClaimed ==
    \A p, q \in Emitted :
        p # q => Abs(clips[p].start_time - clips[q].start_time)
                    >= Tolerance

\* C5: a proposal shorter than the absolute minimum is never emitted, and a
\* proposal is skipped as too short only if it is strictly shorter than the
\* absolute minimum (one of exactly that duration is not).
C5_AbsoluteMinimum ==
    /\ \A k \in Emitted : Dur(Source(k)) >= AbsMin
    /\ \A j \in 1..Len(outcome) :
          /\ Dur(selected_candidates[j]) < AbsMin
                => outcome[j] = "too_short"
          /\ Dur(selected_candidates[j]) = AbsMin
                => outcome[j] # "too_short"

C5_Witness ==
    /\ pc = "done"
    /\ \E j \in 1..Len(outcome) : outcome[j] = "too_short"
    /\ \E k \in Emitted : Dur(Source(k)) = AbsMin

\* C6: a proposal longer than max_duration is emitted with its start
\* unchanged and end = start + max_duration, lasting exactly max_duration.
\* The recorded duration is (start + max_duration) - start in floating
\* point, which is not max_duration for every start.
C6_TrimToMaxClaimed ==
    \A k \in Emitted :
        Dur(Source(k)) > MaxDur =>
            /\ clips[k].start_time = Source(k).start_time
            /\ clips[k].end_time = FloatAdd(Source(k).start_time, MaxDur)
            /\ clips[k].duration = MaxDur

\* C7: with extend_short_clips off, a proposal whose duration lies in
\* [absolute_minimum, max_duration] is emitted with start and end unchanged,
\* also when it is shorter than min_duration, and is never skipped as too
\* short.
C7_KeptUnchanged ==
    ~clip_settings.extend_short_clips =>
        /\ \A k \in Emitted :
              (/\ Dur(Source(k)) >= AbsMin
               /\ Dur(Source(k)) <= MaxDur)
              => /\ clips[k].start_time = Source(k).start_time
                 /\ clips[k].end_time = Source(k).end_time
        /\ \A j \in 1..Len(outcome) :
              Dur(selected_candidates[j]) >= AbsMin
                => outcome[j] # "too_short"

C7_Witness ==
    /\ pc = "done"
    /\ ~clip_settings.extend_short_clips
    /\ \E k \in Emitted :
          /\ Dur(Source(k)) >= AbsMin
          /\ Dur(Source(k)) < MinDur
          /\ clips[k].end_time = Source(k).end_time

\* C8: with extend_short_clips on, a proposal with
\* absolute_minimum <= duration < min_duration is emitted re-centred and
\* extended: start = max(0, center - min_duration/2), end = start +
\* min_duration (the start is compared doubled, to stay in whole numbers).
\* The code never extends a clip.
C8_ExtendedClaimed ==
    clip_settings.extend_short_clips =>
        \A k \in Emitted :
            (/\ Dur(Source(k)) >= AbsMin
             /\ Dur(Source(k)) < MinDur)
            => /\ 2 * clips[k].start_time =
                    Max(0, Source(k).start_time + Source(k).end_time
                            - MinDur)
               /\ clips[k].end_time =
                    clips[k].start_time + MinDur

\* C9: the emitted clips are a subsequence of the service's proposal list in
\* the same relative order: each clip is made from the proposal at the
\* position its id names, and the positions increase along the sequence.
C9_ServiceOrder ==
    /\ \A k \in Emitted :
          /\ clips[k].id \in 1..Len(analysis.clips)
          /\ clips[k].start_time = analysis.clips[clips[k].id].start_time
    /\ \A p, q \in Emitted : p < q => clips[p].id < clips[q].id

C9_Witness ==
    /\ pc = "done"
    /\ Len(clips) = 2
    /\ clips[1].start_time > clips[2].start_time

\* C11: the k-th emitted clip has id k (ids 1..n without gap or repeat).
\* The code numbers a clip by its loop position, so a skipped or failed
\* proposal leaves a gap.
C11_IdsSequentialClaimed == \A k \in Emitted : clips[k].id = k

\* C15: all clips of a run come from the one configured source (the
\* analysis service's list), and they are emitted by that mode's rule, the
\* service's order.
C15_SingleMode ==
    /\ \A k \in Emitted : clips[k].source_analysis = "gpt_clips"
    /\ \A p, q \in Emitted :
          /\ clips[p].source_analysis = clips[q].source_analysis
          /\ p < q => clips[p].id < clips[q].id

C15_Witness ==
    /\ pc = "done"
    /\ Len(clips) >= 2

\* C18: a rendering or thumbnail failure omits that clip alone: the loop
\* still visits every selected proposal, and exactly the proposals that were
\* rendered appear in the result, in their original relative order.
C18_FailureSkipsOneClip ==
    (pc = "done" /\ analysis.clips # <<>>) =>
        /\ Len(outcome) = Len(selected_candidates)
        /\ \A j \in 1..Len(selected_candidates) :
              (j \in 1..Len(outcome) /\ outcome[j] = "created")
                <=> \E k \in Emitted : clips[k].id = j
        /\ \A p, q \in Emitted : p < q => clips[p].id < clips[q].id

\* a failure followed by a clip that was rendered
C18_Witness ==
    /\ pc = "done"
    /\ Len(outcome) = 2
    /\ outcome[1] = "failed"
    /\ outcome[2] = "created"
    /\ Len(clips) = 1
    /\ clips[1].id = 2

\* C21: a run never changes its input: the analysis (the proposal list and
\* each proposal's start_time and end_time) is the same after every step, and
\* once selected, the candidates the loop reads stay as they were; a trim
\* shows only in the emitted clip.
C21_InputsNotMutated ==
    [][/\ analysis' = analysis
       /\ (pc = "loop" => selected_candidates' = selected_candidates)]_vars

C21_Witness ==
    /\ pc = "done"
    /\ \E k \in Emitted :
          /\ clips[k].end_time < Source(k).end_time
          /\ Source(k) = analysis.clips[clips[k].id]

\* proposals that no deduplication would touch: every two start at least
\* overlap_tolerance_seconds apart
StartsApart(cands) ==
    \A p, q \in 1..Len(cands) :
        p # q => Abs(cands[p].start_time - cands[q].start_time)
                    >= Tolerance

LongEnough(cands) ==
    { j \in 1..Len(cands) : Dur(cands[j]) >= AbsMin }

\* C22: truncation to max_clips comes after enforcement: when at least
\* max_clips proposals survive (none is a duplicate, at least max_clips are
\* not too short) and every render succeeds, exactly max_clips clips are
\* emitted.  The code takes the first max_clips proposals before it looks
\* at their durations (line 258).
C22_TruncationAfterEnforcementClaimed ==
    (/\ pc = "done"
     /\ FailedAt(outcome) = {}
     /\ max_clips >= 0
     /\ StartsApart(analysis.clips)
     /\ Cardinality(LongEnough(analysis.clips)) >= max_clips)
        => Len(clips) = max_clips

\* the scheduler state a position of the method stands for: proposals are
\* read and selected (lines 248-261), constraints are applied in the loop
\* (263-331), the list is returned (333); the method has no deduplication
\* and no ranking step
SchedulerState ==
    CASE pc = "start" -> "Collecting"
      [] pc = "loop" -> "Enforcing"
      [] pc = "done" -> "Finalized"

StateOrder == <<"Collecting", "Deduplicating", "Enforcing", "Ranking", "Finalized">>

Position(st) == CHOOSE n \in 1..Len(StateOrder) : StateOrder[n] = st

\* C23: a run visits the scheduler states Collecting, Deduplicating,
\* Enforcing, Ranking, Finalized in exactly this order: every change of state
\* goes to the next state of the order, no step is taken from Finalized, and
\* every run that is in Collecting reaches Finalized.  The method goes from
\* selecting the proposals straight to the constraints and from the loop
\* straight to its return: Deduplicating and Ranking are never entered.
C23_LinearStatesClaimed ==
    /\ [][SchedulerState' # SchedulerState
            => Position(SchedulerState') = Position(SchedulerState) + 1]_vars
    /\ [][SchedulerState # "Finalized"]_vars
    /\ (SchedulerState = "Collecting") ~> (SchedulerState = "Finalized")

\* C25: with absolute_minimum <= min_duration <= max_duration, every
\* emitted clip has absolute_minimum <= end - start <= max_duration, and its
\* recorded duration is end - start of the emitted interval.  A trimmed
\* clip's end - start is (start + max_duration) - start in floating point,
\* which can lie above max_duration.
C25_DurationWindowClaimed ==
    (/\ AbsMin <= MinDur
     /\ MinDur <= MaxDur)
        => \A k \in Emitted :
              /\ AbsMin <= Dur(clips[k])
              /\ Dur(clips[k]) <= MaxDur
              /\ clips[k].duration = Dur(clips[k])

\* the interval of the k-th emitted clip
Interval(k) == [start_time |-> clips[k].start_time, end_time |-> clips[k].end_time]

\* C26 as claimed: enforcement applied to the interval of an emitted clip,
\* with the same settings, neither drops the interval nor changes its start
\* or end.
C26_IdempotentClaimed ==
    \A k \in Emitted :
        ApplyConstraints(Interval(k), clip_settings.max_duration) = <<Interval(k)>>

\* C26: when max_duration is above the absolute minimum, enforcement
\* applied to the interval of an emitted clip neither drops the interval nor
\* changes its start or end.
C26_IdempotentGivenMax ==
    AbsMin < MaxDur
        => \A k \in Emitted :
              ApplyConstraints(Interval(k), clip_settings.max_duration)
                  = <<Interval(k)>>

C26_Witness ==
    /\ pc = "done"
    /\ AbsMin < MaxDur
    /\ \E k \in Emitted :
          /\ Interval(k) # Source(k)
          /\ ApplyConstraints(Source(k), clip_settings.max_duration) = <<Interval(k)>>
          /\ ApplyConstraints(Interval(k), clip_settings.max_duration) = <<Interval(k)>>

----------------------------------------------------------------------------
(* Properties of the design's scheduler *)

Deduplicated == sched_state \in {"Enforcing", "Ranking", "Finalized"}

\* C4: the deduplicator accepts a candidate exactly when no previously
\* accepted candidate starts within the tolerance of it (dropped candidates
\* are not compared against); the first candidate is always accepted and the
\* survivors keep their input order.
C4_FirstSeenWins ==
    Deduplicated =>
        /\ \A k \in 1..Len(pool) :
              k \in Range(accepted) <=>
                 ~\E j \in Range(accepted) :
                     /\ j < k
                     /\ Abs(pool[j].start_time - pool[k].start_time)
                           < overlap_tolerance_seconds
        /\ pool # <<>> => (accepted # <<>> /\ accepted[1] = 1)
        /\ \A p, q \in DOMAIN accepted : p < q => accepted[p] < accepted[q]

\* a candidate is accepted although a dropped candidate before it starts
\* within the tolerance
C4_Witness ==
    /\ sched_state = "Enforcing"
    /\ \E k \in Range(accepted) :
          \E j \in 1..(k - 1) :
              /\ j \notin Range(accepted)
              /\ Abs(pool[j].start_time - pool[k].start_time)
                    < overlap_tolerance_seconds

\* C10: in heuristic mode the final sequence is ordered by non-increasing
\* score, clips of equal score by non-decreasing start time.
C10_HeuristicOrder ==
    (sched_state = "Finalized" /\ mode = "heuristic") =>
        \A p, q \in DOMAIN final :
            p < q =>
                \/ final[p].score > final[q].score
                \/ /\ final[p].score = final[q].score
                   /\ final[p].start_time <= final[q].start_time

\* two clips of equal score that the ranking put into start order
C10_Witness ==
    /\ sched_state = "Finalized"
    /\ mode = "heuristic"
    /\ Len(final) = 2
    /\ ranked # enforced
    /\ final[1].score = final[2].score
    /\ final[1].start_time < final[2].start_time

----------------------------------------------------------------------------
(* Properties of process_video and analyze_content *)

ProcessVideoReturned == entry = "process_video" /\ pv_pc = "returned"

\* the call ended with an exception instead of a result
ProcessVideoRaised == entry = "process_video" /\ pv_pc = "raised"

AnalysisReturned == an_pc = "returned"

\* the analysis step of process_video was entered (its progress update is 55)
AnalysisStageEntered == 55 \in Range(progress)

\* every collaborator does its part in this run
AllStagesSucceed ==
    /\ env.jumpcutter = "ok"
    /\ env.video_prep = "ok"
    /\ env.whisper = "ok"
    /\ env.segments # <<>>
    /\ env.api_key
    /\ env.service \in UsableResponses

\* the analysis of this run ends in an error: no API key, no segments, a
\* failing call or an unusable response
AnalysisFails ==
    \/ ~env.api_key
    \/ env.segments = <<>>
    \/ env.service \notin UsableResponses

\* C13: when the analysis yields an empty clip list and no error, the run
\* ends with success = true and an empty sequence.  process_video never gets
\* an analysis result: its call of analyze_content raises TypeError.
C13_EmptyIsSuccessClaimed ==
    (ProcessVideoReturned /\ AllStagesSucceed /\ env.service_clips = <<>>)
        => /\ results.success = TRUE
           /\ clips = <<>>

C17_NoSegmentsNoServiceCall ==
    /\ (AnalysisReturned /\ transcript_result.segments = <<>>)
          => /\ service_calls = 0
             /\ analysis_result.error # None
             /\ analysis_result.clips = <<>>
             /\ env.api_key
                   => analysis_result.error = "No transcript segments found"
    /\ (ProcessVideoReturned /\ AnalysisStageEntered
           /\ transcript_result.segments = <<>>)
          => /\ service_calls = 0
             /\ results.success = FALSE
             /\ clips = <<>>

C17_Witness ==
    /\ AnalysisReturned
    /\ env.api_key
    /\ transcript_result.segments = <<>>
    /\ analysis_result.error = "No transcript segments found"
    /\ service_calls = 0

\* C19: the analysis service is called at most once in a run.
C19_AtMostOneServiceCall == service_calls <= 1

\* the one call failed and the run ended without another
C19_Witness ==
    /\ AnalysisReturned
    /\ env.service \in ServiceFailures
    /\ service_calls = 1
    /\ analysis_result.error # None

\* C20: a failure of the speech-to-text engine comes back as a result with
\* an 'error' entry, and process_video then returns success = false without
\* entering the analysis stage, calling the service or rendering a clip.
C20_TranscriptionFailure ==
    /\ 40 \in Range(progress) => ~ProcessVideoRaised
    /\ (ProcessVideoReturned /\ env.video_prep = "ok" /\ env.whisper = "raises")
        => /\ transcript_result.error # None
           /\ results.success = FALSE
           /\ results.error = "Transcription failed"
           /\ ~AnalysisStageEntered
           /\ service_calls = 0
           /\ clips = <<>>

C20_Witness ==
    /\ ProcessVideoReturned
    /\ env.video_prep = "ok"
    /\ env.whisper = "raises"
    /\ transcript_result.error # None
    /\ results.success = FALSE

\* the progress updates of a run that passes every stage (lines 84, 148,
\* 158, 172, 190, 201, 223)
StagePercents == <<15, 25, 40, 55, 75, 90, 100>>

IsPrefix(p, s) ==
    /\ Len(p) <= Len(s)
    /\ \A k \in 1..Len(p) : p[k] = s[k]

Front(p) == SubSeq(p, 1, Len(p) - 1)

\* the stages before the analysis succeed
StagesBeforeAnalysisSucceed ==
    /\ env.video_prep = "ok"
    /\ env.whisper = "ok"
    /\ env.segments # <<>>

\* C24: a process_video run in which silence removal, preparation,
\* transcription and the analysis service all succeed reaches the
\* clip-generation step and returns success = True with
\* total_clips_generated.  The call of analyze_content raises TypeError
\* (two arguments for one parameter), so the run returns the failure result.
C24_SuccessfulRunClaimed ==
    (ProcessVideoReturned /\ AllStagesSucceed)
        => /\ 75 \in Range(progress)
           /\ results.success = TRUE
           /\ "total_clips_generated" \in results.keys

\* C28: when silence removal fails, cut_quiet_parts returns the original
\* video path and process_video goes on to preparation, transcription and
\* clip generation on the original video.  The fallback is taken and
\* preparation and transcription run, but no run reaches clip generation
\* (progress 75): the analysis call before it raises TypeError.
C28_SilenceFailureContinuesClaimed ==
    (/\ ProcessVideoReturned
     /\ env.jumpcutter # "ok"
     /\ StagesBeforeAnalysisSucceed
     /\ env.api_key
     /\ env.service \in UsableResponses)
        => /\ processed_video_path = "original"
           /\ IsPrefix(<<15, 25, 40>>, progress)
           /\ 75 \in Range(progress)

\* C29: a result of analyze_content carries an error or clips, never both:
\* with a non-null error the clip list is empty, and with a non-empty clip
\* list the error is null.
C29_ErrorOrClips ==
    AnalysisReturned
        => /\ (analysis_result.error # None => analysis_result.clips = <<>>)
           /\ (analysis_result.clips # <<>> => analysis_result.error = None)

C29_Witness ==
    /\ AnalysisReturned
    /\ env.service \in ServiceFailures
    /\ env.service_clips # <<>>
    /\ service_calls = 1
    /\ analysis_result.error # None
    /\ analysis_result.clips = <<>>

\* C30: process_video reports its progress in stage order with strictly
\* increasing percentages (a prefix of 15, 25, 40, 55, 75, 90, 100); 100 is
\* reported only in a run that returns success = True; a run that fails
\* reports the stages it passed and then 0 as its last update.  A run that
\* fails at line 136, before the try, ends with the exception and reports
\* nothing.
C30_ProgressOrderClaimed ==
    /\ (entry = "process_video" /\ pv_pc \notin {"returned", "raised"})
          => IsPrefix(progress, StagePercents)
    /\ (ProcessVideoReturned /\ results.success = TRUE)
          => IsPrefix(progress, StagePercents)
    /\ (ProcessVideoRaised \/ (ProcessVideoReturned /\ results.success = FALSE))
          => /\ progress # <<>>
             /\ progress[Len(progress)] = 0
             /\ IsPrefix(Front(progress), StagePercents)
             /\ 100 \notin Range(progress)
    /\ 100 \in Range(progress)
          => (ProcessVideoReturned /\ results.success = TRUE)

----------------------------------------------------------------------------
(* Properties of the design's semantic grouper *)

GroupsOf(j) == { g \in 1..Len(groups) : j \in groups[g].members }

\* C27: every transcript segment belongs to at most one group: a segment
\* claimed by an earlier group is not merged into a later group and does not
\* seed one.
C27_ClaimedOnce ==
    /\ \A j \in 1..Len(transcript_segments) : Cardinality(GroupsOf(j)) <= 1
    /\ \A g, h \in 1..Len(groups) :
          g < h => groups[h].seed \notin groups[g].members
    /\ claimed = UNION { groups[g].members : g \in 1..Len(groups) }

C27_Witness ==
    /\ scan = Len(transcript_segments) + 1
    /\ \E g, h \in 1..Len(groups) :
          /\ g < h
          /\ \E j \in groups[g].members :
                /\ j # groups[g].seed
                /\ Sim(groups[h].seed, j) > similarity_threshold
                /\ j \notin groups[h].members
    /\ \E j \in 1..Len(transcript_segments) : \A g \in 1..Len(groups) : groups[g].seed # j

====
